---- MODULE Spec2Model ----
(***************************************************************************)
(* A model of the Gully repository: the future-based DataStream / Pipe     *)
(* (src/gully/data_stream.py and its twin src/pipes/pipe.py), their        *)
(* filter / map views and iterators, driven by an asyncio event loop, and  *)
(* the coroutine-based Gully (src/gully.py) with its pipeline and          *)
(* observers.                                                              *)
(***************************************************************************)
EXTENDS Integers, Sequences, FiniteSets, Bags, TLC

VARIABLES
    futures,     \* futures[s][k]: the k-th future stream s created for its `next`
    streams,     \* every DataStream / view created so far, by identity (index);
                 \* early: whether it was constructed before the root's first push,
                 \* late: whether close() had been called on the parent by then
    ready,       \* the event loop's FIFO queue of scheduled callbacks
    iters,       \* every DataStreamIterator created so far
    pushLog,     \* the calls of DataStream.push made so far, with their outcome
    closeLog,    \* the streams close() has been called on
    loopErrors,  \* exceptions the event loop caught in a callback and logged
    gullies,     \* every Gully created so far, by identity (index)
    handles,     \* per callback: "none", or the last call (enable / disable) made
                 \* on the Observer that Gully.watch returned for it
    tasks,       \* the Gully loop's FIFO queue of tasks created and not yet run
    gLog,        \* the calls of Gully.push completed so far, with their outcome
    ran,         \* the bag of observer coroutines the loop has run to completion
    gErr,        \* the exception raised by the last Gully call, or "none"
    parked,      \* the Gully.push coroutines suspended inside a coroutine step
    viewLog      \* the operations tried on objects returned by Gully.history

dsVars == <<futures, streams, ready, iters, pushLog, closeLog, loopErrors>>

gVars == <<gullies, handles, tasks, gLog, ran, gErr, parked, viewLog>>

vars == <<dsVars, gVars>>

(***************************************************************************)
(* Bounds of the model.                                                    *)
(***************************************************************************)
MaxPushes == 3
MaxViews == 2
MaxValue == 2
MaxGPushes == 3
MaxItem == 3
MaxSteps == 2
MaxViewOps == 2

PushValues == 1..MaxValue

\* max_size arguments the root stream is created with (default -1).
RootMaxSizes == {0 - 1, 0, 1, 2}

\* max_size arguments a view is created with (default -1).
ViewMaxSizes == {0 - 1}

Root == 1

(***************************************************************************)
(* The user callbacks of the tests: f(p, value) = value % 2 == 0 and       *)
(* m(p, value) = value * 2.                                                *)
(***************************************************************************)
Predicate(v) == v % 2 = 0

Mapper(v) == v * 2

(***************************************************************************)
(* asyncio futures and the loop's ready queue.  A world is the record of   *)
(* the three structures a call chain reads and writes.                     *)
(***************************************************************************)
World == [futures |-> futures, streams |-> streams, ready |-> ready]

NewFuture == [state |-> "pending", result |-> 0, callbacks |-> <<>>]

\* The identity of a future: the stream that created it and its rank there.
FutureId(s, k) == [s |-> s, k |-> k]

FutureAt(w, f) == w.futures[f.s][f.k]

\* self._next = loop.create_future() of stream s.
CreateFuture(w, s) ==
    [w EXCEPT !.futures[s] = Append(@, NewFuture),
              !.streams[s].next = FutureId(s, Len(w.futures[s]) + 1)]

\* loop.call_soon(cb, fut)
CallSoon(w, cb, f) == [w EXCEPT !.ready = Append(@, [cb |-> cb, fut |-> f])]

\* Future.add_done_callback: a done future schedules the callback at once.
AddDoneCallback(w, f, cb) ==
    IF FutureAt(w, f).state = "pending"
    THEN [w EXCEPT !.futures[f.s][f.k].callbacks = Append(@, cb)]
    ELSE CallSoon(w, cb, f)

\* Future.__schedule_callbacks: every registered callback goes to the loop.
ScheduleCallbacks(w, f) ==
    LET cbs == FutureAt(w, f).callbacks
    IN [w EXCEPT !.futures[f.s][f.k].callbacks = <<>>,
                 !.ready = @ \o [i \in 1..Len(cbs) |-> [cb |-> cbs[i], fut |-> f]]]

\* Future.set_result on a pending future (a done future raises
\* InvalidStateError, which SetValue decides before calling this).
SetResult(w, f, v) ==
    ScheduleCallbacks([w EXCEPT !.futures[f.s][f.k].state = "resolved",
                                !.futures[f.s][f.k].result = v], f)

\* Future.cancel: no effect on a done future.
Cancel(w, f) ==
    IF FutureAt(w, f).state # "pending"
    THEN w
    ELSE ScheduleCallbacks([w EXCEPT !.futures[f.s][f.k].state = "cancelled"], f)

(***************************************************************************)
(* DataStreamBase                                                          *)
(***************************************************************************)
Tail1(s) == SubSeq(s, 2, Len(s))

\* _push_value with the eviction taken from the wrong end (pop() for pop(0)).
PushValueEvictNewest(w, s, v) ==
    LET st == w.streams[s]
    IN IF Len(st.values) = st.max_size
       THEN IF Len(st.values) = 0
            THEN [w |-> w, exc |-> "IndexError"]
            ELSE [w |-> [w EXCEPT !.streams[s].values =
                                      Append(SubSeq(@, 1, Len(@) - 1), v)],
                  exc |-> "none"]
       ELSE [w |-> [w EXCEPT !.streams[s].values = Append(@, v)], exc |-> "none"]

\* DataStreamBase._push_value: list.pop(0) of an empty list raises IndexError.
PushValue(w, s, v) ==
    LET st == w.streams[s]
    IN IF Len(st.values) = st.max_size
       THEN IF Len(st.values) = 0
            THEN [w |-> w, exc |-> "IndexError"]
            ELSE [w |-> [w EXCEPT !.streams[s].values = Append(Tail1(@), v)],
                  exc |-> "none"]
       ELSE [w |-> [w EXCEPT !.streams[s].values = Append(@, v)], exc |-> "none"]

\* A _set_value that resolves the current future and keeps it as `next`.
SetValueKeepsSlot(w, s, v) ==
    LET previous == w.streams[s].next
        r == PushValue(w, s, v)
    IN IF r.exc # "none"
       THEN r
       ELSE IF FutureAt(r.w, previous).state # "pending"
            THEN [w |-> r.w, exc |-> "InvalidStateError"]
            ELSE [w |-> SetResult(r.w, previous, v), exc |-> "none"]

\* DataStreamBase._set_value: swap in a fresh future, record, resolve the old.
SetValue(w, s, v) ==
    LET previous == w.streams[s].next
        w1 == CreateFuture(w, s)
        r == PushValue(w1, s, v)
    IN IF r.exc # "none"
       THEN r
       ELSE IF FutureAt(r.w, previous).state # "pending"
            THEN [w |-> r.w, exc |-> "InvalidStateError"]
            ELSE [w |-> SetResult(r.w, previous, v), exc |-> "none"]

\* DataStreamView._watch: attach `receive` to the parent's current future.
ReceiveCb(view) == [type |-> "receive", target |-> view]

Watch(w, view) ==
    AddDoneCallback(w, w.streams[w.streams[view].parent].next, ReceiveCb(view))

\* future.result()
FutureExc(w, f) ==
    IF FutureAt(w, f).state = "cancelled" THEN "CancelledError" ELSE "none"

\* The view's predicate or mapper is user code that raises when it is given
\* the value st.raises (views without that field never raise).
CallbackRaises(st, v) == "raises" \in DOMAIN st /\ st.raises = v

\* DataStreamView / FilteredView / MappedView ._receive_value
ReceiveValue(w, view, f) ==
    LET result == FutureAt(w, f).result
        kind == w.streams[view].kind
    IN IF FutureExc(w, f) # "none"
       THEN [w |-> w, exc |-> FutureExc(w, f)]
       ELSE IF kind # "source" /\ CallbackRaises(w.streams[view], result)
       THEN [w |-> w, exc |-> "ValueError"]
       ELSE IF kind = "filter"
            THEN IF Predicate(result)
                 THEN SetValue(w, view, result)
                 ELSE [w |-> w, exc |-> "none"]
            ELSE IF kind = "map"
                 THEN SetValue(w, view, Mapper(result))
                 ELSE SetValue(w, view, result)

\* The closure `receive` of DataStreamView._watch: re-attach, then receive.
Receive(w, view, f) == ReceiveValue(Watch(w, view), view, f)

(***************************************************************************)
(* DataStreamIterator                                                      *)
(***************************************************************************)
\* limit arguments an iterator is created with (default -1).
IterLimits == {0 - 1, 2}

NoFuture == FutureId(0, 0)

\* The iterators a run creates over the stream: an earlier and a later one.
Iterators == {1, 2}

\* The protocol a consumer drives an iterator with: `for` calls __next__,
\* `async for` awaits __anext__.
IterModes == {"sync", "async"}

\* DataStreamIterator.__init__
NewIter(s, limit, mode) ==
    [stream |-> s, limit |-> limit, mode |-> mode, index |-> 0,
     status |-> "idle", awaited |-> NoFuture, yielded |-> <<>>, exc |-> "none",
     \* for the properties: whether values were pushed before the iterator
     \* was created, and whether a suspended __anext__ was ever resumed with
     \* a value
     backlog |-> (pushLog # <<>>), resumed |-> FALSE]

\* The task wake-up an awaiting coroutine registers on the future it awaits.
WakeupCb(i) == [type |-> "wakeup", target |-> i]

\* A get_next_value that hands out the newest recorded value and moves the
\* cursor to the live edge.
GetNextValueNewest(it, values) ==
    IF it.index + 1 > Len(values)
    THEN [it EXCEPT !.status = "failed", !.exc = "IndexError"]
    ELSE [it EXCEPT !.status = "idle",
                    !.yielded = Append(@, values[Len(values)]),
                    !.index = Len(values)]

\* DataStreamIterator.get_next_value: self._stream[self._current_index]
\* raises IndexError past the end of the list.
GetNextValue(it, values) ==
    IF it.index + 1 > Len(values)
    THEN [it EXCEPT !.status = "failed", !.exc = "IndexError"]
    ELSE [it EXCEPT !.status = "idle",
                    !.yielded = Append(@, values[it.index + 1]),
                    !.index = @ + 1]

\* The consumer awaits iterator.__anext__(): end of a limited iteration, a
\* recorded value, or `await self._stream.next` at the live edge.
Anext(i) ==
    /\ i \in 1..Len(iters)
    /\ iters[i].mode = "async"
    /\ iters[i].status = "idle"
    /\ LET it == [iters[i] EXCEPT !.awaited = NoFuture]
           st == streams[it.stream]
       IN IF ~(it.limit <= 0 \/ it.index < it.limit)
          THEN /\ iters' = [iters EXCEPT ![i] = [it EXCEPT !.status = "stopped",
                                                          !.exc = "StopAsyncIteration"]]
               /\ UNCHANGED <<futures, ready>>
          ELSE IF it.index >= Len(st.values)
               THEN IF FutureAt(World, st.next).state = "pending"
                    THEN /\ iters' = [iters EXCEPT ![i] = [it EXCEPT !.status = "waiting",
                                                                    !.awaited = st.next]]
                         /\ LET w == AddDoneCallback(World, st.next, WakeupCb(i))
                            IN futures' = w.futures /\ ready' = w.ready
                    ELSE /\ iters' = [iters EXCEPT ![i] =
                                IF FutureExc(World, st.next) # "none"
                                THEN [it EXCEPT !.status = "failed",
                                                !.exc = FutureExc(World, st.next)]
                                ELSE GetNextValue(it, st.values)]
                         /\ UNCHANGED <<futures, ready>>
               ELSE /\ iters' = [iters EXCEPT ![i] = GetNextValue(it, st.values)]
                    /\ UNCHANGED <<futures, ready>>
    /\ UNCHANGED <<streams, pushLog, closeLog, loopErrors, gVars>>

\* The loop resumes a consumer suspended in `await self._stream.next`: the
\* await returns the result or raises CancelledError into the consumer.
RunWakeup ==
    /\ ready # <<>>
    /\ Head(ready).cb.type = "wakeup"
    /\ LET h == Head(ready)
           i == h.cb.target
           it == iters[i]
       IN iters' = [iters EXCEPT ![i] =
                       IF FutureExc(World, h.fut) # "none"
                       THEN [it EXCEPT !.status = "failed",
                                       !.exc = FutureExc(World, h.fut)]
                       ELSE [GetNextValue(it, streams[it.stream].values)
                                EXCEPT !.resumed = TRUE]]
    /\ ready' = Tail(ready)
    /\ UNCHANGED <<futures, streams, pushLog, closeLog, loopErrors, gVars>>

\* A __next__ that waits for the next value at the live edge, as __anext__
\* does.
SyncNextBlocks(i) ==
    /\ i \in 1..Len(iters)
    /\ iters[i].mode = "sync"
    /\ iters[i].status = "idle"
    /\ LET it == iters[i]
           st == streams[it.stream]
       IN IF 0 < it.limit /\ it.limit <= it.index
          THEN /\ iters' = [iters EXCEPT ![i] = [it EXCEPT !.status = "stopped",
                                                          !.exc = "StopIteration"]]
               /\ UNCHANGED <<futures, ready>>
          ELSE IF it.index >= Len(st.values)
               THEN /\ iters' = [iters EXCEPT ![i] = [it EXCEPT !.status = "waiting",
                                                               !.awaited = st.next]]
                    /\ LET w == AddDoneCallback(World, st.next, WakeupCb(i))
                       IN futures' = w.futures /\ ready' = w.ready
               ELSE /\ iters' = [iters EXCEPT ![i] = GetNextValue(it, st.values)]
                    /\ UNCHANGED <<futures, ready>>
    /\ UNCHANGED <<streams, pushLog, closeLog, loopErrors, gVars>>

\* A __next__ whose limit test lets one value too many through.
SyncNextOneMore(i) ==
    /\ i \in 1..Len(iters)
    /\ iters[i].mode = "sync"
    /\ iters[i].status = "idle"
    /\ LET it == iters[i]
           values == streams[it.stream].values
       IN iters' = [iters EXCEPT ![i] =
                       IF it.index >= Len(values)
                          \/ (0 < it.limit /\ it.limit < it.index)
                       THEN [it EXCEPT !.status = "stopped", !.exc = "StopIteration"]
                       ELSE GetNextValue(it, values)]
    /\ UNCHANGED <<futures, streams, ready, pushLog, closeLog, loopErrors, gVars>>

\* next(iterator): DataStreamIterator.__next__
SyncNext(i) ==
    /\ i \in 1..Len(iters)
    /\ iters[i].mode = "sync"
    /\ iters[i].status = "idle"
    /\ LET it == iters[i]
           values == streams[it.stream].values
       IN iters' = [iters EXCEPT ![i] =
                       IF it.index >= Len(values)
                          \/ (0 < it.limit /\ it.limit <= it.index)
                       THEN [it EXCEPT !.status = "stopped", !.exc = "StopIteration"]
                       ELSE GetNextValue(it, values)]
    /\ UNCHANGED <<futures, streams, ready, pushLog, closeLog, loopErrors, gVars>>

\* iter(stream), aiter(stream) or stream.iterate_first(limit)
CreateIterator(s, limit, mode) ==
    /\ s \in 1..Len(streams)
    /\ Len(iters) < Cardinality(Iterators)
    /\ iters' = Append(iters, NewIter(s, limit, mode))
    /\ UNCHANGED <<futures, streams, ready, pushLog, closeLog, loopErrors, gVars>>

(***************************************************************************)
(* Gully (src/gully.py)                                                    *)
(***************************************************************************)
GItems == 1..MaxItem

\* max_size arguments a Gully is created with (default -1).
GMaxSizes == {0 - 1, 0, 1, 2}

Main == 1

\* A branch gully, Gully(main, ...), and the callback its constructor passes
\* to main.watch: its own bound method push.
Branch == 2

Forward == 0

\* The coroutine functions user code passes to Gully.watch.
Callbacks == {1, 2}

\* A plain (synchronous) function passed to Gully.watch.
SyncCallbacks == {3}

\* The predicates of the tests: item % 2 == 0 and item % 3 == 0.
FilterFns == {"even", "div3"}

\* Two mappings that do not commute: item + 1 and item * 2.
MapFns == {"inc", "double"}

ApplyPredicate(fn, v) == IF fn = "even" THEN v % 2 = 0 ELSE v % 3 = 0

ApplyMapping(fn, v) == IF fn = "inc" THEN v + 1 ELSE v * 2

\* A step whose function is a coroutine function (async def); a mapping of
\* that kind awaits something (a sleep, I/O) before it returns.
IsCoroutineStep(step) == "co" \in DOMAIN step /\ step.co

\* predicate(item): a plain function returns its answer, a coroutine
\* function returns a coroutine object that has not run.
CallPredicate(step, v) ==
    IF IsCoroutineStep(step)
    THEN [type |-> "coroutine", answer |-> FALSE]
    ELSE [type |-> "bool", answer |-> ApplyPredicate(step.fn, v)]

\* bool(x): every object that is not a bool here is true.
Truthy(x) == IF x.type = "bool" THEN x.answer ELSE TRUE

\* A filter_wrapper that returns the item whatever the predicate answers.
RunStepNeverRaises(step, v) ==
    IF step.kind = "filter"
    THEN [value |-> v, exc |-> "none"]
    ELSE [value |-> ApplyMapping(step.fn, v), exc |-> "none"]

\* One pipeline step: Gully.add_filter's filter_wrapper around a predicate
\* (raises NotAFilterMatch on a false result, else returns the item), or a
\* mapping added by Gully.add_mapping.
RunStep(step, v) ==
    IF step.kind = "filter"
    THEN IF ~Truthy(CallPredicate(step, v))
         THEN [value |-> v, exc |-> "NotAFilterMatch"]
         ELSE [value |-> v, exc |-> "none"]
    ELSE [value |-> ApplyMapping(step.fn, v), exc |-> "none"]

\* Pipeline.run: feed the value through the steps from index i on; a raising
\* step ends the run.
RECURSIVE PipelineRun(_, _, _)
PipelineRun(steps, i, v) ==
    IF i > Len(steps)
    THEN [value |-> v, exc |-> "none"]
    ELSE LET r == RunStep(steps[i], v)
         IN IF r.exc # "none" THEN r ELSE PipelineRun(steps, i + 1, r.value)

\* Pipeline.run from step i on, up to its end, a raising step, or the first
\* coroutine step, where `value = await value` suspends the caller (at # 0).
RECURSIVE RunFrom(_, _, _)
RunFrom(steps, i, v) ==
    IF i > Len(steps)
    THEN [value |-> v, exc |-> "none", at |-> 0]
    ELSE IF steps[i].kind = "map" /\ IsCoroutineStep(steps[i])
    THEN [value |-> v, exc |-> "none", at |-> i]
    ELSE LET r == RunStep(steps[i], v)
         IN IF r.exc # "none"
            THEN [value |-> r.value, exc |-> r.exc, at |-> 0]
            ELSE RunFrom(steps, i + 1, r.value)

\* deque(maxlen=max_size > 0 and max_size or None); 0 stands for None.
DequeMaxlen(max_size) == IF max_size > 0 THEN max_size ELSE 0

\* deque.appendleft: a full bounded deque discards its rightmost item.
AppendLeft(h, maxlen, v) ==
    IF maxlen # 0 /\ Len(h) = maxlen
    THEN <<v>> \o SubSeq(h, 1, Len(h) - 1)
    ELSE <<v>> \o h

\* Gully.__init__ without filters, mappings and watched gullies.
NewGully(max_size) ==
    [history |-> <<>>, max_size |-> max_size, maxlen |-> DequeMaxlen(max_size),
     pipeline |-> <<>>, observers |-> {}]

\* The orders in which `for observer in self._observers` may visit a set.
Orders(S) ==
    {f \in [1..Cardinality(S) -> S] :
        \A i, j \in 1..Cardinality(S) : f[i] = f[j] => i = j}

\* Gully.push leaving out the observer it would visit last.
NotifyAllButLast(g, value, order) ==
    /\ gullies' = [gullies EXCEPT ![g].history = AppendLeft(@, gullies[g].maxlen, value)]
    /\ tasks' = tasks \o [i \in 1..(Len(order) - 1) |->
                            [cb |-> order[i], value |-> value, push |-> Len(gLog) + 1]]
    /\ ran' = ran
    /\ gErr' = "none"

\* The position in `order` of the first plain function, or one past its end.
FirstSync(order) ==
    IF \E i \in 1..Len(order) : order[i] \in SyncCallbacks
    THEN CHOOSE i \in 1..Len(order) :
            /\ order[i] \in SyncCallbacks
            /\ \A j \in 1..(i - 1) : order[j] \notin SyncCallbacks
    ELSE Len(order) + 1

\* The body of Gully.push after the pipeline returned `value`: record it and
\* create one task per observer, visiting the observers in `order`.
\* observer(value) on a coroutine function returns a coroutine for
\* create_task; on a plain function it runs the function, which returns
\* None, and create_task(None) raises TypeError out of the loop and of push.
Notify(g, value, order) ==
    LET k == FirstSync(order)
    IN /\ gullies' = [gullies EXCEPT
                         ![g].history = AppendLeft(@, gullies[g].maxlen, value)]
       /\ tasks' = tasks \o [i \in 1..(k - 1) |->
                               [cb |-> order[i], value |-> value, push |-> Len(gLog) + 1]]
       /\ ran' = IF k > Len(order) THEN ran
                 ELSE ran (+) SetToBag({[cb |-> order[k], value |-> value,
                                         push |-> Len(gLog) + 1]})
       /\ gErr' = IF k > Len(order) THEN "none" ELSE "TypeError"

\* DataStream(max_size=m) on a fresh event loop.
InitStream(sizes) ==
    /\ futures = <<(<<NewFuture>>)>>
    /\ \E m \in sizes :
          streams = <<[kind |-> "source", parent |-> 0, max_size |-> m,
                       next |-> FutureId(Root, 1), values |-> <<>>,
                       early |-> TRUE, late |-> FALSE]>>
    /\ ready = <<>>
    /\ iters = <<>>
    /\ pushLog = <<>>
    /\ closeLog = {}
    /\ loopErrors = {}

\* Gully(filters=..., mappings=..., max_size=m) on a fresh event loop: the
\* constructor adds the filters, then the mappings, to the empty pipeline.
InitGullyWith(sizes, pipelines) ==
    /\ \E m \in sizes, steps \in pipelines :
          gullies = <<[NewGully(m) EXCEPT !.pipeline = steps]>>
    /\ handles = [c \in Callbacks \cup SyncCallbacks |-> "none"]
    /\ tasks = <<>>
    /\ gLog = <<>>
    /\ ran = EmptyBag
    /\ gErr = "none"
    /\ parked = {}
    /\ viewLog = <<>>

\* Gully(max_size=m) on a fresh event loop.
InitGully(sizes) == InitGullyWith(sizes, {<<>>})

\* close() has been called on stream s.
Closed(s) == s \in closeLog

\* DataStream.push(value), called by user code.
Push(v) ==
    /\ Len(pushLog) < MaxPushes
    /\ LET r == SetValue(World, Root, v)
       IN /\ futures' = r.w.futures
          /\ streams' = r.w.streams
          /\ ready' = r.w.ready
          /\ pushLog' = Append(pushLog, [value |-> v, exc |-> r.exc])
    /\ UNCHANGED <<iters, closeLog, loopErrors, gVars>>

\* A close() that also cancels the current slot of the stream a view watches.
CloseWithParent(s) ==
    /\ s \in 1..Len(streams)
    /\ LET w1 == Cancel(World, streams[s].next)
           w == IF streams[s].parent = 0 THEN w1
                ELSE Cancel(w1, streams[streams[s].parent].next)
       IN /\ futures' = w.futures
          /\ ready' = w.ready
    /\ closeLog' = closeLog \cup {s}
    /\ UNCHANGED <<streams, iters, pushLog, loopErrors, gVars>>

\* DataStreamBase.close(), on a stream or a view.
Close(s) ==
    /\ s \in 1..Len(streams)
    /\ LET w == Cancel(World, streams[s].next)
       IN /\ futures' = w.futures
          /\ ready' = w.ready
    /\ closeLog' = closeLog \cup {s}
    /\ UNCHANGED <<streams, iters, pushLog, loopErrors, gVars>>

\* DataStreamBase.filter / map: construct a view over `parent`.
CreateView(parent, kind, m) ==
    /\ parent \in 1..Len(streams)
    /\ Len(streams) < 1 + MaxViews
    /\ LET view == Len(streams) + 1
           w1 == [World EXCEPT
                     !.futures = Append(@, <<NewFuture>>),
                     !.streams = Append(@, [kind |-> kind, parent |-> parent,
                                            max_size |-> m,
                                            next |-> FutureId(view, 1),
                                            values |-> <<>>,
                                            early |-> (pushLog = <<>>),
                                            late |-> Closed(parent)])]
           w2 == Watch(w1, view)
       IN /\ futures' = w2.futures
          /\ streams' = w2.streams
          /\ ready' = w2.ready
    /\ UNCHANGED <<iters, pushLog, closeLog, loopErrors, gVars>>

\* One iteration of the event loop running a view's `receive` callback.
RunReceive ==
    /\ ready # <<>>
    /\ Head(ready).cb.type = "receive"
    /\ LET h == Head(ready)
           w0 == [World EXCEPT !.ready = Tail(@)]
           r == Receive(w0, h.cb.target, h.fut)
       IN /\ futures' = r.w.futures
          /\ streams' = r.w.streams
          /\ ready' = r.w.ready
          /\ loopErrors' = IF r.exc = "none" THEN loopErrors
                           ELSE loopErrors \cup {[cb |-> h.cb, exc |-> r.exc]}
    /\ UNCHANGED <<iters, pushLog, closeLog, gVars>>

\* await gully.push(item), with synchronous pipeline steps.
GPush(g, item) ==
    /\ Len(gLog) < MaxGPushes
    /\ LET r == PipelineRun(gullies[g].pipeline, 1, item)
       IN /\ IF r.exc = "NotAFilterMatch"
             THEN /\ UNCHANGED <<gullies, tasks, ran>>
                  /\ gErr' = "none"
             ELSE \E order \in Orders(gullies[g].observers) :
                     Notify(g, r.value, order)
          /\ gLog' = Append(gLog, [item |-> item,
                                   exc |-> IF r.exc # "none" THEN r.exc ELSE gErr',
                                   value |-> r.value,
                                   steps |-> gullies[g].pipeline,
                                   observers |-> gullies[g].observers,
                                   handles |-> handles])
    /\ UNCHANGED <<handles, parked, viewLog, dsVars>>

\* Gully.add_filter(predicate)
GAddFilter(g, fn) ==
    /\ Len(gullies[g].pipeline) < MaxSteps
    /\ gullies' = [gullies EXCEPT ![g].pipeline = Append(@, [kind |-> "filter", fn |-> fn])]
    /\ gErr' = "none"
    /\ UNCHANGED <<handles, tasks, gLog, ran, parked, viewLog, dsVars>>

\* Gully.add_mapping(mapping)
GAddMapping(g, fn) ==
    /\ Len(gullies[g].pipeline) < MaxSteps
    /\ gullies' = [gullies EXCEPT ![g].pipeline = Append(@, [kind |-> "map", fn |-> fn])]
    /\ gErr' = "none"
    /\ UNCHANGED <<handles, tasks, gLog, ran, parked, viewLog, dsVars>>

\* Observer.enable: partial(self._observers.add, callback)
ObserverStart(g, c) == gullies' = [gullies EXCEPT ![g].observers = @ \cup {c}]

\* A stop function that leaves the callback in the set.
ObserverStopKeeps(g, c) ==
    /\ UNCHANGED gullies
    /\ gErr' = "none"

\* Observer.disable: partial(self._observers.remove, callback); set.remove of
\* an absent element raises KeyError.
ObserverStop(g, c) ==
    IF c \in gullies[g].observers
    THEN /\ gullies' = [gullies EXCEPT ![g].observers = @ \ {c}]
         /\ gErr' = "none"
    ELSE /\ UNCHANGED gullies
         /\ gErr' = "KeyError"

\* The mutating operations user code can try on the object gully.history
\* returns: h[0] = v, h.append(v), h.insert(0, v), h.pop(), h.remove(v),
\* h.clear().
HistoryOps == {"setitem", "append", "insert", "pop", "remove", "clear"}

\* s without its first entry equal to v.
RECURSIVE RemoveFirst(_, _)
RemoveFirst(s, v) ==
    IF s = <<>> THEN <<>>
    ELSE IF Head(s) = v THEN Tail(s)
    ELSE <<Head(s)>> \o RemoveFirst(Tail(s), v)

\* HistoryView(self._history): UserList.__init__ copies the deque's items
\* into a list of its own.
HistoryView(g) == gullies[g].history

\* One operation on a HistoryView holding h.  HistoryView overrides
\* __setitem__ only, which raises TypeError; every other operation is
\* UserList's and works on the view's own list.
ApplyViewOp(op, h, v) ==
    CASE op = "setitem" -> [view |-> h, exc |-> "TypeError"]
      [] op = "append" -> [view |-> Append(h, v), exc |-> "none"]
      [] op = "insert" -> [view |-> <<v>> \o h, exc |-> "none"]
      [] op = "pop" -> IF h = <<>> THEN [view |-> h, exc |-> "IndexError"]
                       ELSE [view |-> SubSeq(h, 1, Len(h) - 1), exc |-> "none"]
      [] op = "remove" -> IF \E n \in 1..Len(h) : h[n] = v
                          THEN [view |-> RemoveFirst(h, v), exc |-> "none"]
                          ELSE [view |-> h, exc |-> "ValueError"]
      [] op = "clear" -> [view |-> <<>>, exc |-> "none"]

\* h = gully.history, then one mutating operation on h.
GHistoryOp(g, op, v) ==
    /\ Len(viewLog) < MaxViewOps
    /\ LET r == ApplyViewOp(op, HistoryView(g), v)
       IN viewLog' = Append(viewLog, [op |-> op, arg |-> v, exc |-> r.exc,
                                     view |-> r.view,
                                     before |-> gullies[g].history])
    /\ gErr' = ApplyViewOp(op, HistoryView(g), v).exc
    /\ UNCHANGED <<gullies, handles, tasks, gLog, ran, parked, dsVars>>

\* What user code can hand to stop_watching for callback c: the callback
\* itself, or the Observer that watch(c) returned.
StopForms == {"callback", "observer"}

StopArg(form, c) == [form |-> form, cb |-> c]

\* hash() of a function object.
HashCallback(c) == <<"function", c>>

\* An Observer hashed by its own identity, as object.__hash__ does.
ObserverHashIdentity(c) == <<"observer", c>>

\* Observer.__hash__: hash(self._callback)
ObserverHash(c) == HashCallback(c)

\* Observer.__eq__(other): other == self._callback
ObserverEq(c, other) == other = c

ArgHash(x) == IF x.form = "observer" THEN ObserverHash(x.cb) ELSE HashCallback(x.cb)

ArgEq(x, e) == IF x.form = "observer" THEN ObserverEq(x.cb, e) ELSE e = x.cb

\* set.remove(x): drop the element with x's hash that equals x, or raise
\* KeyError; the elements of _observers are the raw callbacks.
SetRemove(S, x) ==
    LET hits == {e \in S : HashCallback(e) = ArgHash(x) /\ ArgEq(x, e)}
    IN IF hits = {} THEN [set |-> S, exc |-> "KeyError"]
       ELSE [set |-> S \ hits, exc |-> "none"]

\* Gully.stop_watching(x), x the callback c or the Observer watch returned
\* for c (which exists once watch(c) was called).
GStopWatching(g, c, form) ==
    /\ form = "observer" => handles[c] # "none"
    /\ LET r == SetRemove(gullies[g].observers, StopArg(form, c))
       IN /\ gullies' = [gullies EXCEPT ![g].observers = r.set]
          /\ gErr' = r.exc
          /\ handles' = IF r.exc = "none"
                        THEN [handles EXCEPT ![c] = form]
                        ELSE handles
    /\ UNCHANGED <<tasks, gLog, ran, parked, viewLog, dsVars>>

\* Gully.watch(callback): wrap the callable in an Observer, enable it.
GWatch(g, c) ==
    /\ handles[c] = "none"
    /\ ObserverStart(g, c)
    /\ handles' = [handles EXCEPT ![c] = "enabled"]
    /\ gErr' = "none"
    /\ UNCHANGED <<tasks, gLog, ran, parked, viewLog, dsVars>>

\* observer.enable() on an Observer returned by watch.
GEnable(g, c) ==
    /\ handles[c] # "none"
    /\ ObserverStart(g, c)
    /\ handles' = [handles EXCEPT ![c] = "enabled"]
    /\ gErr' = "none"
    /\ UNCHANGED <<tasks, gLog, ran, parked, viewLog, dsVars>>

\* observer.disable() on an Observer returned by watch.
GDisable(g, c) ==
    /\ handles[c] # "none"
    /\ ObserverStop(g, c)
    /\ handles' = [handles EXCEPT ![c] = "disabled"]
    /\ UNCHANGED <<tasks, gLog, ran, parked, viewLog, dsVars>>

\* The rest of Gully.push of gully g once Pipeline.run has stopped at r:
\* suspended inside a coroutine step (the coroutine is parked until what it
\* awaits completes), filtered out, or through, in which case the value is
\* recorded and one task per observer created.  `queue` and `others` are the
\* loop's tasks and the parked coroutines apart from this one.
Settle(g, r, push, queue, others) ==
    IF r.at # 0
    THEN /\ parked' = others \cup {[gully |-> g, at |-> r.at, value |-> r.value,
                                    push |-> push]}
         /\ tasks' = queue
         /\ UNCHANGED gullies
    ELSE IF r.exc = "NotAFilterMatch"
    THEN /\ parked' = others
         /\ tasks' = queue
         /\ UNCHANGED gullies
    ELSE /\ parked' = others
         /\ gullies' = [gullies EXCEPT
                           ![g].history = AppendLeft(@, gullies[g].maxlen, r.value)]
         /\ \E order \in Orders(gullies[g].observers) :
                tasks' = queue \o [i \in 1..Len(order) |->
                                     [cb |-> order[i], value |-> r.value, push |-> push]]

\* The loop runs a forwarding task: the branch's push(value) starts.
GRunForward ==
    /\ tasks # <<>>
    /\ Head(tasks).cb = Forward
    /\ LET t == Head(tasks)
           r == RunFrom(gullies[Branch].pipeline, 1, t.value)
       IN Settle(Branch, r, t.push, Tail(tasks), parked)
    /\ UNCHANGED <<handles, gLog, ran, gErr, viewLog, dsVars>>

\* What a parked push awaited completes, in whatever order the awaited things
\* complete: the coroutine step returns its result and Pipeline.run goes on.
GResume(p) ==
    /\ p \in parked
    /\ LET steps == gullies[p.gully].pipeline
           v == ApplyMapping(steps[p.at].fn, p.value)
           r == RunFrom(steps, p.at + 1, v)
       IN Settle(p.gully, r, p.push, tasks, parked \ {p})
    /\ UNCHANGED <<handles, gLog, ran, gErr, viewLog, dsVars>>

\* The loop runs the oldest task: the observer coroutine's body executes.
GRunTask ==
    /\ tasks # <<>>
    /\ Head(tasks).cb # Forward
    /\ ran' = ran (+) SetToBag({Head(tasks)})
    /\ tasks' = Tail(tasks)
    /\ UNCHANGED <<gullies, handles, gLog, gErr, parked, viewLog, dsVars>>

(***************************************************************************)
(* Specifications.                                                         *)
(***************************************************************************)

\* A stream and a gully that are only pushed into.
InitHistory == InitStream(RootMaxSizes) /\ InitGully(GMaxSizes)

NextHistory ==
    \/ \E v \in PushValues : Push(v)
    \/ \E item \in GItems : GPush(Main, item)

SpecHistory == InitHistory /\ [][NextHistory]_vars

\* A stream, unbounded or with max_size = 2, with filter / map views on an
\* event loop; the i-th push pushes i, as the tests do, so that a value
\* identifies its push.
InitViews == InitStream({0 - 1, 2}) /\ InitGully({0 - 1})

NextViews ==
    \/ Push(Len(pushLog) + 1)
    \/ \E s \in 1..(1 + MaxViews) : Close(s)
    \/ \E p \in 1..MaxViews, k \in {"filter", "map"}, m \in ViewMaxSizes :
          CreateView(p, k, m)
    \/ RunReceive

SpecViews == InitViews /\ [][NextViews]_vars

\* A stream with two views of its own, a.map(...) or a.filter(...) each, made
\* before anything is pushed; the views are closed, the stream is not.
SiblingViews == {2, 3}

InitSiblings ==
    /\ \E m \in {0 - 1, 2}, k2, k3 \in {"filter", "map"} :
          LET view(kind) == [kind |-> kind, parent |-> Root, max_size |-> 0 - 1,
                             next |-> FutureId(0, 1), values |-> <<>>,
                             early |-> TRUE, late |-> FALSE]
              w0 == [futures |-> <<(<<NewFuture>>), <<NewFuture>>, <<NewFuture>>>>,
                     streams |-> <<[kind |-> "source", parent |-> 0, max_size |-> m,
                                    next |-> FutureId(Root, 1), values |-> <<>>,
                                    early |-> TRUE, late |-> FALSE],
                                   [view(k2) EXCEPT !.next = FutureId(2, 1)],
                                   [view(k3) EXCEPT !.next = FutureId(3, 1)]>>,
                     ready |-> <<>>]
              w == Watch(Watch(w0, 2), 3)
          IN /\ futures = w.futures
             /\ streams = w.streams
             /\ ready = w.ready
    /\ iters = <<>>
    /\ pushLog = <<>>
    /\ closeLog = {}
    /\ loopErrors = {}
    /\ InitGully({0 - 1})

NextSiblings ==
    \/ Push(Len(pushLog) + 1)
    \/ \E s \in SiblingViews : Close(s)
    \/ RunReceive

SpecSiblings == InitSiblings /\ [][NextSiblings]_vars

\* A stream with two views made before anything is pushed: the predicate or
\* mapper of the first raises for one of the pushed values, that of the
\* second never raises.
RaisingView == 2

InitRaising ==
    /\ \E m \in {0 - 1, 2}, k2, k3 \in {"filter", "map"}, x \in {1, 2} :
          LET view(kind, n, bad) ==
                  [kind |-> kind, parent |-> Root, max_size |-> 0 - 1,
                   next |-> FutureId(n, 1), values |-> <<>>,
                   early |-> TRUE, late |-> FALSE, raises |-> bad]
              w0 == [futures |-> <<(<<NewFuture>>), <<NewFuture>>, <<NewFuture>>>>,
                     streams |-> <<[kind |-> "source", parent |-> 0, max_size |-> m,
                                    next |-> FutureId(Root, 1), values |-> <<>>,
                                    early |-> TRUE, late |-> FALSE],
                                   view(k2, 2, x),
                                   view(k3, 3, 0)>>,
                     ready |-> <<>>]
              w == Watch(Watch(w0, 2), 3)
          IN /\ futures = w.futures
             /\ streams = w.streams
             /\ ready = w.ready
    /\ iters = <<>>
    /\ pushLog = <<>>
    /\ closeLog = {}
    /\ loopErrors = {}
    /\ InitGully({0 - 1})

NextRaising ==
    \/ Push(Len(pushLog) + 1)
    \/ RunReceive

SpecRaising == InitRaising /\ [][NextRaising]_vars

\* A stream read by iterators while it is pushed into and closed.
InitIter == InitStream(RootMaxSizes) /\ InitGully({0 - 1})

NextIter ==
    \/ Push(Len(pushLog) + 1)
    \/ Close(Root)
    \/ \E limit \in IterLimits, mode \in IterModes :
          CreateIterator(Root, limit, mode)
    \/ \E i \in Iterators : Anext(i)
    \/ \E i \in Iterators : SyncNext(i)
    \/ RunWakeup

SpecIter == InitIter /\ [][NextIter]_vars

\* The pipelines of the branch: Gully(main), main.map(f) with f a coroutine
\* function, a synchronous filter and mapping, a coroutine mapping before a
\* filter, and two coroutine mappings.
BranchPipelines ==
    {<<>>,
     <<[kind |-> "map", fn |-> "inc", co |-> TRUE]>>,
     <<[kind |-> "map", fn |-> "inc", co |-> TRUE],
       [kind |-> "map", fn |-> "double", co |-> TRUE]>>,
     <<[kind |-> "filter", fn |-> "even", co |-> FALSE],
       [kind |-> "map", fn |-> "double", co |-> FALSE]>>,
     <<[kind |-> "map", fn |-> "inc", co |-> TRUE],
       [kind |-> "filter", fn |-> "even", co |-> FALSE]>>}

\* g1 = Gully(); g2 = Gully(g1, filters=..., mappings=...): g2.push watches g1.
InitBranch ==
    /\ InitStream({0 - 1})
    /\ \E steps \in BranchPipelines :
          gullies = <<[NewGully(0 - 1) EXCEPT !.observers = {Forward}],
                      [NewGully(0 - 1) EXCEPT !.pipeline = steps]>>
    /\ handles = [c \in Callbacks \cup SyncCallbacks |-> "none"]
    /\ tasks = <<>>
    /\ gLog = <<>>
    /\ ran = EmptyBag
    /\ gErr = "none"
    /\ parked = {}
    /\ viewLog = <<>>

\* The i-th push pushes i, so that a value identifies its push.
NextBranch ==
    \/ GPush(Main, Len(gLog) + 1)
    \/ GRunForward
    \/ \E p \in parked : GResume(p)

SpecBranch == InitBranch /\ [][NextBranch]_vars

\* A gully whose pipeline grows while it is pushed into.
InitPipeline == InitStream({0 - 1}) /\ InitGully(GMaxSizes)

NextPipeline ==
    \/ \E item \in GItems : GPush(Main, item)
    \/ \E fn \in FilterFns : GAddFilter(Main, fn)
    \/ \E fn \in MapFns : GAddMapping(Main, fn)

SpecPipeline == InitPipeline /\ [][NextPipeline]_vars

\* A gully, with or without the filter `item % 2 == 0`, and observers that
\* are enabled and disabled between pushes of an odd or an even item.
ObserverItems == {1, 2}

InitObservers ==
    /\ InitStream({0 - 1})
    /\ InitGullyWith({0 - 1}, {<<>>, <<[kind |-> "filter", fn |-> "even"]>>})

NextObservers ==
    \/ \E item \in ObserverItems : GPush(Main, item)
    \/ \E c \in Callbacks : GWatch(Main, c)
    \/ \E c \in Callbacks : GEnable(Main, c)
    \/ \E c \in Callbacks : GDisable(Main, c)
    \/ GRunTask

SpecObservers == InitObservers /\ [][NextObservers]_vars

\* Gully(filters=[even]) with `even` a plain function or a coroutine
\* function, watched by a coroutine function.
FilterPipelines ==
    {<<[kind |-> "filter", fn |-> "even", co |-> FALSE]>>,
     <<[kind |-> "filter", fn |-> "even", co |-> TRUE]>>}

InitCoFilter == InitStream({0 - 1}) /\ InitGullyWith(GMaxSizes, FilterPipelines)

NextCoFilter ==
    \/ \E item \in GItems : GPush(Main, item)
    \/ \E c \in Callbacks : GWatch(Main, c)
    \/ GRunTask

SpecCoFilter == InitCoFilter /\ [][NextCoFilter]_vars

\* A gully whose history property is read and the result operated on.
InitHistoryView == InitStream({0 - 1}) /\ InitGully(GMaxSizes)

NextHistoryView ==
    \/ \E item \in ObserverItems : GPush(Main, item)
    \/ \E op \in HistoryOps, v \in ObserverItems : GHistoryOp(Main, op, v)

SpecHistoryView == InitHistoryView /\ [][NextHistoryView]_vars

\* A gully whose observers are removed with stop_watching.
InitStop == InitStream({0 - 1}) /\ InitGully({0 - 1})

NextStop ==
    \/ \E item \in ObserverItems : GPush(Main, item)
    \/ \E c \in Callbacks : GWatch(Main, c)
    \/ \E c \in Callbacks, form \in StopForms : GStopWatching(Main, c, form)
    \/ GRunTask

SpecStop == InitStop /\ [][NextStop]_vars

\* A gully watched by coroutine functions and by a plain function.
InitWatch == InitStream({0 - 1}) /\ InitGully({0 - 1})

NextWatch ==
    \/ \E item \in ObserverItems : GPush(Main, item)
    \/ \E c \in Callbacks \cup SyncCallbacks : GWatch(Main, c)
    \/ GRunTask

SpecWatch == InitWatch /\ [][NextWatch]_vars

(***************************************************************************)
(* What the logs say was pushed.                                           *)
(***************************************************************************)
Min(a, b) == IF a < b THEN a ELSE b

\* The last k entries of a sequence (all of it when it is shorter).
LastK(s, k) == SubSeq(s, Len(s) - Min(k, Len(s)) + 1, Len(s))

Reverse(s) == [i \in 1..Len(s) |-> s[Len(s) + 1 - i]]

\* The values passed to DataStream.push, in call order.
PushedValues == [i \in 1..Len(pushLog) |-> pushLog[i].value]

\* The values Gully.push recorded (those its pipeline let through), in call order.
RECURSIVE RecordedUpTo(_)
RecordedUpTo(n) ==
    IF n = 0 THEN <<>>
    ELSE IF gLog[n].exc = "none"
         THEN Append(RecordedUpTo(n - 1), gLog[n].value)
         ELSE RecordedUpTo(n - 1)

RecordedValues == RecordedUpTo(Len(gLog))

(***************************************************************************)
(* C1: with max_size = k > 0 the history never has more than k entries and *)
(* holds exactly the last k pushed values: oldest first in a DataStream /  *)
(* Pipe, newest first in a Gully (each keeps its own order throughout).    *)
(***************************************************************************)
C1_BoundedHistory ==
    /\ streams[Root].max_size > 0 =>
          /\ Len(streams[Root].values) <= streams[Root].max_size
          /\ streams[Root].values = LastK(PushedValues, streams[Root].max_size)
    /\ gullies[Main].max_size > 0 =>
          /\ Len(gullies[Main].history) <= gullies[Main].max_size
          /\ gullies[Main].history =
                Reverse(LastK(RecordedValues, gullies[Main].max_size))

\* Both kinds of stream have overflowed: more pushes than max_size.
C1_Witness ==
    /\ streams[Root].max_size > 0
    /\ Len(pushLog) > streams[Root].max_size
    /\ gullies[Main].max_size > 0
    /\ Len(gLog) > gullies[Main].max_size

(***************************************************************************)
(* C2: a stream created with max_size <= 0 is unbounded: every push        *)
(* succeeds and the history is all the pushed values in push order (newest *)
(* first in a Gully).                                                      *)
(***************************************************************************)
C2_Unbounded ==
    /\ streams[Root].max_size <= 0 =>
          /\ \A i \in 1..Len(pushLog) : pushLog[i].exc = "none"
          /\ streams[Root].values = PushedValues
    /\ gullies[Main].max_size <= 0 =>
          gullies[Main].history = Reverse(RecordedValues)

(***************************************************************************)
(* C3: push on a DataStream / Pipe after close() is a silent no-op: it     *)
(* raises nothing and leaves the history and the current slot unchanged    *)
(* (stated for max_size # 0; max_size = 0 is C2's case).                   *)
(***************************************************************************)
C3_PushAfterCloseNoOp ==
    [][(/\ Len(pushLog') = Len(pushLog) + 1
        /\ Closed(Root)
        /\ streams[Root].max_size # 0) =>
          /\ pushLog'[Len(pushLog')].exc = "none"
          /\ streams'[Root].values = streams[Root].values
          /\ streams'[Root].next = streams[Root].next]_vars

(***************************************************************************)
(* C4: once the closure of a stream has reached a view that existed when   *)
(* close() was called (the view's continuation has run on the parent's     *)
(* cancelled slot), the view's own current slot is cancelled, at any depth *)
(* of a chain.                                                             *)
(***************************************************************************)
Views == 2..Len(streams)

SawParentCancelled(v) ==
    [cb |-> ReceiveCb(v), exc |-> "CancelledError"] \in loopErrors

ParentClosedUnder(v) == Closed(streams[v].parent) /\ ~streams[v].late

C4_ViewsCloseWithParent ==
    \A v \in Views :
        (ParentClosedUnder(v) /\ SawParentCancelled(v)) =>
            FutureAt(World, streams[v].next).state = "cancelled"

(***************************************************************************)
(* C5: a mapped view made before the first push of an unbounded stream     *)
(* that is never closed holds, once the loop has dispatched every          *)
(* callback, f(v1), ..., f(vn) in push order, none dropped.                *)
(***************************************************************************)
MapSeq(s) == [i \in 1..Len(s) |-> Mapper(s[i])]

Quiet == ready = <<>> /\ closeLog = {}

C5_MapViewCompleteness ==
    \A v \in Views :
        (/\ Quiet
         /\ streams[Root].max_size < 0
         /\ streams[v].kind = "map"
         /\ streams[v].parent = Root
         /\ streams[v].early) =>
            streams[v].values = MapSeq(PushedValues)

(***************************************************************************)
(* C7: stream.filter(p).map(f), both made before the first push of an      *)
(* unbounded stream that is never closed, holds, once the loop has         *)
(* dispatched every callback, f over the pushed values that satisfy p.     *)
(***************************************************************************)
IsFilterMapChain(v) ==
    /\ streams[v].kind = "map"
    /\ streams[v].early
    /\ streams[v].parent \in Views
    /\ streams[streams[v].parent].kind = "filter"
    /\ streams[streams[v].parent].parent = Root

C7_FilterMapComposition ==
    \A v \in Views :
        (Quiet /\ streams[Root].max_size < 0 /\ IsFilterMapChain(v)) =>
            streams[v].values = MapSeq(SelectSeq(PushedValues, Predicate))

(***************************************************************************)
(* C10: an async iterator that was suspended at the live edge when the     *)
(* stream was closed ends with a normal end-of-sequence                    *)
(* (StopAsyncIteration), not with the cancellation raised in its consumer. *)
(***************************************************************************)
ResumedAfterClose(i) ==
    /\ iters[i].awaited # NoFuture
    /\ iters[i].status # "waiting"
    /\ FutureAt(World, iters[i].awaited).state = "cancelled"

C10_CloseEndsIterationCleanly ==
    \A i \in 1..Len(iters) :
        ResumedAfterClose(i) =>
            iters[i].status = "stopped" /\ iters[i].exc = "StopAsyncIteration"

(***************************************************************************)
(* C6: a Gully's history is, newest first, every pushed item that all the  *)
(* filters added before its push accept, carried through the mappings in   *)
(* the order they were added (a filter sees the item as mapped by the      *)
(* mappings added before it); with max_size = k > 0, the newest k of them. *)
(***************************************************************************)
\* The item as the mapping steps among the first n steps transform it.
RECURSIVE MappedUpTo(_, _, _)
MappedUpTo(steps, n, v) ==
    IF n = 0 THEN v
    ELSE LET u == MappedUpTo(steps, n - 1, v)
         IN IF steps[n].kind = "map" THEN ApplyMapping(steps[n].fn, u) ELSE u

\* The conjunction of the filter steps.
Passes(steps, v) ==
    \A n \in 1..Len(steps) :
        steps[n].kind = "filter" =>
            ApplyPredicate(steps[n].fn, MappedUpTo(steps, n - 1, v))

RECURSIVE ExpectedHistory(_)
ExpectedHistory(n) ==
    IF n = 0 THEN <<>>
    ELSE IF Passes(gLog[n].steps, gLog[n].item)
         THEN <<MappedUpTo(gLog[n].steps, Len(gLog[n].steps), gLog[n].item)>>
                 \o ExpectedHistory(n - 1)
         ELSE ExpectedHistory(n - 1)

C6_PipelineHistory ==
    LET expected == ExpectedHistory(Len(gLog))
        k == gullies[Main].max_size
    IN gullies[Main].history =
          IF k > 0 THEN SubSeq(expected, 1, Min(k, Len(expected))) ELSE expected

\* A mapping followed by a filter has rejected one item and let through
\* another, which was recorded changed.
C6_Witness ==
    /\ Len(gullies[Main].pipeline) = 2
    /\ gullies[Main].pipeline[1].kind = "map"
    /\ gullies[Main].pipeline[2].kind = "filter"
    /\ \E i, j \in 1..Len(gLog) :
          /\ gLog[i].steps = gullies[Main].pipeline
          /\ gLog[i].exc = "NotAFilterMatch"
          /\ gLog[j].steps = gullies[Main].pipeline
          /\ gLog[j].exc = "none"
          /\ gLog[j].value # gLog[j].item
          /\ gLog[j].value \in {gullies[Main].history[n] : n \in 1..Len(gullies[Main].history)}

(***************************************************************************)
(* C8: for each push whose value passes the pipeline, every observer in    *)
(* the observer set at that moment is called exactly once (one task, run   *)
(* or still queued) with the recorded value, and no one else is called.    *)
(***************************************************************************)
\* How many tasks push j created for callback c are still queued.
Queued(j, c) ==
    Cardinality({i \in 1..Len(tasks) : tasks[i].push = j /\ tasks[i].cb = c})

RECURSIVE SumCopies(_, _)
SumCopies(bag, S) ==
    IF S = {} THEN 0
    ELSE LET x == CHOOSE y \in S : TRUE
         IN CopiesIn(x, bag) + SumCopies(bag, S \ {x})

\* How many coroutines push j created for callback c have run.
Ran(j, c) ==
    SumCopies(ran, {t \in BagToSet(ran) : t.push = j /\ t.cb = c})

Invocations(j, c) == Queued(j, c) + Ran(j, c)

ValuesSent(j) ==
    {tasks[i].value : i \in {n \in 1..Len(tasks) : tasks[n].push = j}}
        \cup {t.value : t \in {u \in BagToSet(ran) : u.push = j}}

C8_EachObserverOnce ==
    \A j \in 1..Len(gLog) :
        gLog[j].exc = "none" =>
            /\ \A c \in Callbacks :
                  Invocations(j, c) = IF c \in gLog[j].observers THEN 1 ELSE 0
            /\ ValuesSent(j) \subseteq {gLog[j].value}

\* One push reached every callback, and each of them has run.
C8_Witness ==
    \E j \in 1..Len(gLog) :
        /\ gLog[j].exc = "none"
        /\ gLog[j].observers = Callbacks
        /\ \A c \in Callbacks : Ran(j, c) = 1

(***************************************************************************)
(* C9: a push made while an Observer was last disabled never calls its     *)
(* callback; a push that passes the pipeline while the Observer was last   *)
(* enabled (by watch or by a later enable) calls it once.                  *)
(***************************************************************************)
C9_DisableEnable ==
    \A j \in 1..Len(gLog) :
        \A c \in Callbacks :
            /\ gLog[j].handles[c] = "disabled" => Invocations(j, c) = 0
            /\ (gLog[j].handles[c] = "enabled" /\ gLog[j].exc = "none") =>
                  Invocations(j, c) = 1

\* watch, push, disable, push, enable, push: the first and the third push
\* reached the callback and the second did not.
C9_Witness ==
    \E c \in Callbacks :
        /\ Len(gLog) = 3
        /\ \A j \in 1..3 : gLog[j].exc = "none"
        /\ gLog[1].handles[c] = "enabled"
        /\ gLog[2].handles[c] = "disabled"
        /\ gLog[3].handles[c] = "enabled"
        /\ Ran(1, c) = 1
        /\ Ran(2, c) = 0
        /\ Ran(3, c) = 1


(***************************************************************************)
(* C11: an async iterator over an unbounded stream, whenever it is         *)
(* created, yields the pushed values in push order from the first one      *)
(* (backlog, then live values), and when the close ends it, it has yielded *)
(* every value pushed before the close, a value pushed right before the    *)
(* close in the same scheduling step included.                             *)
(***************************************************************************)
\* Index of the first push that found the current slot cancelled, if any.
FirstPushAfterClose ==
    IF \E n \in 1..Len(pushLog) : pushLog[n].exc = "InvalidStateError"
    THEN CHOOSE n \in 1..Len(pushLog) :
            /\ pushLog[n].exc = "InvalidStateError"
            /\ \A m \in 1..(n - 1) : pushLog[m].exc # "InvalidStateError"
    ELSE Len(pushLog) + 1

\* Number of pushes made before the first close of the stream.
PushesBeforeClose == FirstPushAfterClose - 1

AsyncUnlimited(i) ==
    /\ iters[i].mode = "async"
    /\ iters[i].limit <= 0
    /\ streams[iters[i].stream].max_size < 0

\* Suspended on a slot that a push has resolved, not yet resumed.
PushedWhileSuspended(i) ==
    /\ iters[i].status = "waiting"
    /\ FutureAt(World, iters[i].awaited).state = "resolved"

C11_AsyncIterationComplete ==
    \A i \in 1..Len(iters) :
        AsyncUnlimited(i) =>
            /\ iters[i].yielded = SubSeq(PushedValues, 1, Len(iters[i].yielded))
            /\ iters[i].exc \in {"none", "CancelledError"}
            /\ PushedWhileSuspended(i) =>
                  /\ Len(streams[iters[i].stream].values) > iters[i].index
                  /\ \E n \in 1..Len(ready) :
                        /\ ready[n].cb = WakeupCb(i)
                        /\ ready[n].fut = iters[i].awaited
            /\ iters[i].exc = "CancelledError" =>
                  Len(iters[i].yielded) >= PushesBeforeClose

\* An iterator created over a backlog that went on to live values, found the
\* slot already cancelled when it came back for more, and has yielded every
\* push.
C11_Witness ==
    \E i \in 1..Len(iters) :
        /\ AsyncUnlimited(i)
        /\ iters[i].exc = "CancelledError"
        /\ iters[i].backlog
        /\ iters[i].resumed
        /\ iters[i].awaited = NoFuture
        /\ PushesBeforeClose = MaxPushes
        /\ iters[i].yielded = PushedValues

(***************************************************************************)
(* C12: the synchronous iterator never blocks: each next() either yields   *)
(* the recorded value under its cursor and advances by one, or signals     *)
(* end-of-sequence, which it does exactly when the cursor is at the live   *)
(* edge (or its limit), whether or not the stream is closed; it never      *)
(* suspends or fails, over an unbounded stream what it has yielded is the  *)
(* recorded values from index 0 in order, and a new iterator created later *)
(* starts again from index 0.                                              *)
(***************************************************************************)
SyncIters == {i \in 1..Len(iters) : iters[i].mode = "sync"}

AtLiveEdge(i) == iters[i].index >= Len(streams[iters[i].stream].values)

LimitReached(i) == 0 < iters[i].limit /\ iters[i].limit <= iters[i].index

\* What one next() on iterator i does.
SyncStep(i) ==
    IF AtLiveEdge(i) \/ LimitReached(i)
    THEN /\ iters'[i].status = "stopped"
         /\ iters'[i].exc = "StopIteration"
         /\ iters'[i].yielded = iters[i].yielded
         /\ iters'[i].index = iters[i].index
    ELSE /\ iters'[i].status = "idle"
         /\ iters'[i].exc = "none"
         /\ iters'[i].index = iters[i].index + 1
         /\ iters'[i].yielded =
               Append(iters[i].yielded,
                      streams[iters[i].stream].values[iters[i].index + 1])

C12_SyncIteratorNeverBlocks ==
    [][/\ \A i \in SyncIters :
             /\ iters'[i] # iters[i] => SyncStep(i)
             /\ iters'[i].status \in {"idle", "stopped"}
             /\ iters'[i].awaited = NoFuture
             /\ \A n \in 1..Len(ready') : ready'[n].cb # WakeupCb(i)
             /\ streams'[iters'[i].stream].max_size < 0 =>
                   iters'[i].yielded =
                      SubSeq(streams'[iters'[i].stream].values, 1, iters'[i].index)
       /\ Len(iters') > Len(iters) =>
             /\ iters'[Len(iters')].index = 0
             /\ iters'[Len(iters')].yielded = <<>>
      ]_vars

\* A first synchronous iterator ran to the live edge of an open stream and a
\* second one, over the same stream that already had values, has started
\* again from the first value.
C12_Witness ==
    /\ Len(iters) = 2
    /\ iters[1].mode = "sync" /\ iters[2].mode = "sync"
    /\ ~Closed(Root)
    /\ iters[1].status = "stopped"
    /\ Len(iters[1].yielded) >= 2
    /\ iters[1].yielded = PushedValues
    /\ iters[2].backlog
    /\ iters[2].index = 1
    /\ iters[2].yielded = <<PushedValues[1]>>

(***************************************************************************)
(* C13: an iterator made by iterate_first(n), n > 0, yields at most n      *)
(* values, over an unbounded stream the first recorded values in order,    *)
(* and once it has yielded n the next request signals end-of-sequence      *)
(* instead of waiting; for the synchronous and the asynchronous protocol,  *)
(* also when more than n values are pushed before or during the iteration. *)
(***************************************************************************)
Limited == {i \in 1..Len(iters) : iters[i].limit > 0}

C13_IterateFirst ==
    \A i \in Limited :
        /\ Len(iters[i].yielded) <= iters[i].limit
        /\ iters[i].index = Len(iters[i].yielded)
        /\ streams[iters[i].stream].max_size < 0 =>
              iters[i].yielded = SubSeq(PushedValues, 1, iters[i].index)
        /\ iters[i].status = "waiting" => iters[i].index < iters[i].limit
        /\ (iters[i].index = iters[i].limit /\ iters[i].status # "idle") =>
              /\ iters[i].status = "stopped"
              /\ iters[i].exc = IF iters[i].mode = "sync" THEN "StopIteration"
                                ELSE "StopAsyncIteration"
        /\ iters[i].exc = "StopAsyncIteration" => iters[i].index = iters[i].limit

\* A synchronous and an asynchronous iterate_first(2) over a stream with
\* three pushes, the asynchronous one resumed by a push while suspended:
\* both ended after the first two values.
C13_Witness ==
    /\ Len(pushLog) = 3
    /\ streams[Root].max_size < 0
    /\ \E i, j \in Limited :
          /\ iters[i].mode = "sync" /\ iters[j].mode = "async"
          /\ iters[j].resumed
          /\ \A k \in {i, j} :
                /\ iters[k].status = "stopped"
                /\ iters[k].yielded = SubSeq(PushedValues, 1, 2)

(***************************************************************************)
(* C14: a stream or view that has been closed is permanently done:         *)
(* whatever pushes (direct, or forwarded by a parent to a closed view) and *)
(* closes follow, its current slot is cancelled, so that nothing attached  *)
(* to `next` after the close can receive a value.                          *)
(***************************************************************************)
C14_ClosedIsPermanent ==
    \A s \in 1..Len(streams) :
        Closed(s) => FutureAt(World, streams[s].next).state = "cancelled"

(***************************************************************************)
(* C15: closing a view never propagates upward: the close leaves the       *)
(* parent's history and slots, and the other views, as they were, and      *)
(* afterwards the parent still records every push, resolves the slot of    *)
(* each push and hands it to everything attached to it, every view being   *)
(* attached to the parent's current slot or queued on the loop.            *)
(***************************************************************************)
\* This step is a close() of view v.
ClosesView(v) ==
    \/ v \in closeLog' \ closeLog
    \/ /\ futures[v][streams[v].next.k].state = "pending"
       /\ streams'[v].next = streams[v].next
       /\ futures'[v][streams[v].next.k].state = "cancelled"

\* View v's receive callback is attached to its parent's current slot or
\* waits in the loop's ready queue.
Attached(v) ==
    LET cbs == FutureAt(World, streams[streams[v].parent].next).callbacks
    IN \/ \E n \in 1..Len(cbs) : cbs[n] = ReceiveCb(v)
       \/ \E n \in 1..Len(ready) : ready[n].cb = ReceiveCb(v)

\* The stream holds what its max_size keeps of all the pushes and its
\* current slot is pending.
RootKeepsRecording ==
    /\ streams[Root].values =
          IF streams[Root].max_size < 0 THEN PushedValues
          ELSE LastK(PushedValues, streams[Root].max_size)
    /\ FutureAt(World, streams[Root].next).state = "pending"

C15_ViewCloseStaysLocal ==
    [][/\ \A v \in SiblingViews :
             ClosesView(v) =>
                /\ streams'[Root] = streams[Root]
                /\ futures'[Root] = futures[Root]
                /\ \A u \in SiblingViews \ {v} :
                      streams'[u] = streams[u] /\ futures'[u] = futures[u]
       /\ pushLog' # pushLog =>
             LET f == streams[Root].next
                 cbs == FutureAt(World, f).callbacks
                 p == pushLog'[Len(pushLog')]
             IN /\ p.exc = "none"
                /\ futures'[Root][f.k].state = "resolved"
                /\ futures'[Root][f.k].result = p.value
                /\ ready' = ready \o [n \in 1..Len(cbs) |-> [cb |-> cbs[n], fut |-> f]]
       /\ RootKeepsRecording'
       /\ \A v \in SiblingViews : Attached(v)'
      ]_vars

\* One view was closed and the stream pushed into afterwards (the closed
\* view's receive callback failed on its cancelled slot); the stream has
\* recorded two pushes and the other, open view has received from it.
C15_Witness ==
    \E v, u \in SiblingViews :
        /\ Closed(v) /\ ~Closed(u)
        /\ Len(streams[Root].values) = 2
        /\ streams[u].values # <<>>
        /\ \E e \in loopErrors : e.cb = ReceiveCb(v) /\ e.exc = "InvalidStateError"

(***************************************************************************)
(* C16: a branch gully records the values its parent emitted in the order  *)
(* in which the parent recorded them, never two of them out of order,      *)
(* however the forwarding tasks are scheduled and also when the branch's   *)
(* pipeline has coroutine steps that suspend.                              *)
(***************************************************************************)
\* a is b with some entries left out.
RECURSIVE IsSubsequence(_, _)
IsSubsequence(a, b) ==
    IF a = <<>> THEN TRUE
    ELSE IF b = <<>> THEN FALSE
    ELSE IF Head(a) = Head(b) THEN IsSubsequence(Tail(a), Tail(b))
    ELSE IsSubsequence(a, Tail(b))

\* What the branch makes of the first n values the parent recorded, in the
\* parent's order.
RECURSIVE BranchExpected(_)
BranchExpected(n) ==
    IF n = 0 THEN <<>>
    ELSE LET r == PipelineRun(gullies[Branch].pipeline, 1, RecordedValues[n])
         IN IF r.exc = "none" THEN Append(BranchExpected(n - 1), r.value)
            ELSE BranchExpected(n - 1)

C16_BranchKeepsOrder ==
    IsSubsequence(Reverse(gullies[Branch].history),
                  BranchExpected(Len(RecordedValues)))

(***************************************************************************)
(* C17: whether the callbacks given to Gully.watch are plain functions or  *)
(* coroutine functions, every later push completes without an error and    *)
(* has recorded its value.                                                 *)
(***************************************************************************)
C17_PushWithAnyCallback ==
    \A n \in 1..Len(gLog) :
        /\ gLog[n].exc \in {"none", "NotAFilterMatch"}
        /\ gLog[n].exc = "none" =>
              \E k \in 1..Len(gullies[Main].history) :
                  gullies[Main].history[k] = gLog[n].value

(***************************************************************************)
(* C18: stop_watching given the Observer that watch returned behaves as    *)
(* stop_watching given the raw callback: from any state both leave the     *)
(* same observer set with the same outcome, the callback is out of the set *)
(* afterwards, and no push made after the removal invokes it.              *)
(***************************************************************************)
C18_StopWatchingForms ==
    /\ \A c \in Callbacks :
          /\ SetRemove(gullies[Main].observers, StopArg("observer", c))
                = SetRemove(gullies[Main].observers, StopArg("callback", c))
          /\ handles[c] \in StopForms => c \notin gullies[Main].observers
    /\ \A j \in 1..Len(gLog), c \in Callbacks :
          gLog[j].handles[c] \in StopForms => Invocations(j, c) = 0

\* One callback removed through the raw callback and the other through its
\* Observer, both having been notified by a first push; a later push found
\* no observer and every task has run.
C18_Witness ==
    /\ handles[1] = "callback" /\ handles[2] = "observer"
    /\ Len(gLog) >= 2
    /\ gLog[1].observers = Callbacks
    /\ gLog[Len(gLog)].handles = handles
    /\ Invocations(1, 1) = 1 /\ Invocations(1, 2) = 1
    /\ tasks = <<>>

(***************************************************************************)
(* C19: every mutating operation tried on the object that Gully.history    *)
(* returned (item assignment, append, insert, pop, remove, clear) is       *)
(* rejected with an error, and the gully's recorded history is what it was *)
(* before the operation.                                                   *)
(***************************************************************************)
C19_HistoryViewRejectsMutation ==
    [][viewLog' # viewLog =>
          LET op == viewLog'[Len(viewLog')]
          IN /\ op.exc # "none"
             /\ op.view = op.before
             /\ gullies'[Main].history = op.before
      ]_vars

(***************************************************************************)
(* C20: on an open stream each push resolves exactly the slot that was     *)
(* current before it, with the pushed value, hands that slot to everything *)
(* waiting on it, and installs a fresh pending slot; the current slot is   *)
(* never resolved, and a slot that is resolved or cancelled never changes  *)
(* again.                                                                  *)
(***************************************************************************)
NextNotResolved == FutureAt(World, streams[Root].next).state # "resolved"

C20_PushResolvesCurrentSlot ==
    [][/\ (pushLog' # pushLog /\ ~Closed(Root) /\ streams[Root].max_size # 0) =>
             LET f == streams[Root].next
                 cbs == FutureAt(World, f).callbacks
                 p == pushLog'[Len(pushLog')]
                 new == streams'[Root].next
             IN /\ p.exc = "none"
                /\ futures'[Root][f.k] =
                      [state |-> "resolved", result |-> p.value, callbacks |-> <<>>]
                /\ ready' = ready \o [n \in 1..Len(cbs) |-> [cb |-> cbs[n], fut |-> f]]
                /\ new = FutureId(Root, Len(futures[Root]) + 1)
                /\ Len(futures'[Root]) = Len(futures[Root]) + 1
                /\ futures'[Root][new.k] = NewFuture
       /\ NextNotResolved'
       /\ \A k \in 1..Len(futures[Root]) :
             futures[Root][k].state # "pending" =>
                futures'[Root][k] = futures[Root][k]
      ]_vars

\* An open stream after three pushes: each slot holds the value of its push,
\* the current one is pending, and a consumer that was suspended on a slot
\* has been resumed by the push that resolved it.
C20_Witness ==
    /\ ~Closed(Root)
    /\ Len(pushLog) = MaxPushes
    /\ \A k \in 1..Len(pushLog) :
          /\ futures[Root][k].state = "resolved"
          /\ futures[Root][k].result = pushLog[k].value
    /\ FutureAt(World, streams[Root].next).state = "pending"
    /\ \E i \in 1..Len(iters) :
          iters[i].resumed /\ iters[i].yielded = PushedValues

(***************************************************************************)
(* C21: a filter predicate given as a coroutine function removes every     *)
(* pushed value it answers False for, as a plain predicate does: the value *)
(* is not recorded in the history and not sent to any observer.            *)
(***************************************************************************)
C21_CoroutinePredicateFilters ==
    \A n \in 1..Len(gLog) :
        ~Passes(gLog[n].steps, gLog[n].item) =>
            /\ gLog[n].exc = "NotAFilterMatch"
            /\ \A k \in 1..Len(gullies[Main].history) :
                  gullies[Main].history[k] # gLog[n].item
            /\ \A c \in Callbacks : Invocations(n, c) = 0

(***************************************************************************)
(* C22: once the receive callback of a view, whose parent was closed       *)
(* after the view was made, has run for the parent's cancelled slot, the   *)
(* callback is not armed on that slot again: it is                         *)
(* not back in the loop's ready queue for a cancelled slot, so that only   *)
(* finitely many callbacks run after the close and the loop becomes idle.  *)
(***************************************************************************)
C22_NotReArmedAfterClose ==
    \A n \in 1..Len(ready) :
        (/\ ready[n].cb.type = "receive"
         /\ ParentClosedUnder(ready[n].cb.target)
         /\ FutureAt(World, ready[n].fut).state = "cancelled")
            => [cb |-> ready[n].cb, exc |-> "CancelledError"] \notin loopErrors

(***************************************************************************)
(* C23: an iterator, synchronous or asynchronous, over a stream with a     *)
(* bounded history (max_size = k > 0) never fails and never skips or       *)
(* repeats a value while pushes come between its next() calls: what it has *)
(* yielded is a run of consecutive pushed values in push order, also after *)
(* entries have been evicted.                                              *)
(***************************************************************************)
\* a is a run of consecutive entries of b.
IsRun(a, b) ==
    \E o \in 0..Len(b) :
        /\ o + Len(a) <= Len(b)
        /\ a = SubSeq(b, o + 1, o + Len(a))

C23_BoundedIterationConsecutive ==
    \A i \in 1..Len(iters) :
        (streams[iters[i].stream].max_size > 0 /\ ~Closed(iters[i].stream)) =>
            /\ iters[i].exc # "IndexError"
            /\ IsRun(iters[i].yielded, PushedValues)

(***************************************************************************)
(* C24: a view, made before the first push of a stream that is never       *)
(* closed, whose predicate or mapper has raised for one parent value (the  *)
(* loop logged the error) holds, once the loop has dispatched every        *)
(* callback, the outcome of every other pushed value in push order and     *)
(* nothing for the value that raised.                                      *)
(***************************************************************************)
\* What the view records for the pushed values s: nothing for the value its
\* callback raises on, the mapper's or the predicate's outcome for the rest.
Handled(v, s) ==
    LET Returns(x) == ~CallbackRaises(streams[v], x)
        Kept(x) == Returns(x) /\ Predicate(x)
    IN IF streams[v].kind = "map"
       THEN MapSeq(SelectSeq(s, Returns))
       ELSE SelectSeq(s, Kept)

C24_RaisingViewReceivesLater ==
    (/\ ready = <<>>
     /\ [cb |-> ReceiveCb(RaisingView), exc |-> "ValueError"] \in loopErrors) =>
        streams[RaisingView].values = Handled(RaisingView, PushedValues)
====
